---- MODULE Spec2Model ----
(***************************************************************************)
(* A model of TableSink (src/table_sink.py): a loguru sink that keeps a    *)
(* keyed table of log records and redraws it in place after every record.  *)
(*                                                                         *)
(* Conventions                                                             *)
(*   - a Python value is a record [t, s, n]: t is the type tag ("none",    *)
(*     "str", "int", "float"), s the text of a str, n the number of an     *)
(*     int, or the thousandths of a float (PyFloat(333) is 0.333);         *)
(*   - record["extra"] is a sequence of <<name, value>> pairs with         *)
(*     distinct names (a dict in insertion order);                         *)
(*   - a stored row is the function name -> value of that dict (dict       *)
(*     equality ignores order, and nothing reads the order of a row);      *)
(*   - the box-drawing dash U+2500 is written "-", and the escape          *)
(*     character is written "ESC";                                         *)
(*   - max_rows = 0 stands for max_rows = None (both are falsy at line     *)
(*     186, so the limit is never enforced).                               *)
(***************************************************************************)
EXTENDS Integers, Sequences, FiniteSets, TLC

\* ---------------------------------------------------------------- bounds
\* keys are the integers 0..MaxKey
MaxKey == 2
\* max_rows is drawn from 0..MaxM
MaxM == 2
\* at most MaxWrites redraws are written to stdout
MaxWrites == 3

\* ------------------------------------------------- constructor arguments
key_column == "epoch"
float_precision == 2
colorize == TRUE

\* ---------------------------------------------------------- Python values
PyNone == [t |-> "none", s |-> "", n |-> 0]
PyStr(s) == [t |-> "str", s |-> s, n |-> 0]
PyInt(n) == [t |-> "int", s |-> "", n |-> n]
PyFloat(m) == [t |-> "float", s |-> "", n |-> m]

LEVEL_COLORS ==
  [TRACE |-> "ESC[36m", DEBUG |-> "ESC[34m", INFO |-> "ESC[37m",
   SUCCESS |-> "ESC[32m", WARNING |-> "ESC[33m", ERROR |-> "ESC[31m",
   CRITICAL |-> "ESC[31;1m"]
RESET == "ESC[0m"

\* ------------------------------------------------------ dict operations
\* the names of a dict, in insertion order
DictKeys(data) == [i \in 1..Len(data) |-> data[i][1]]
\* name in data
DictHas(data, name) == \E i \in 1..Len(data) : data[i][1] = name
\* data[name]
DictGet(data, name) == data[CHOOSE i \in 1..Len(data) : data[i][1] = name][2]
\* the mapping held by a dict, without its order
DictOf(data) ==
  [name \in {data[i][1] : i \in 1..Len(data)} |-> DictGet(data, name)]
\* mutant of lines 188-189: nothing is deleted
MapDelNothing(m, k) == m
\* del m[k]
MapDel(m, k) == [x \in DOMAIN m \ {k} |-> m[x]]
\* m[k] = v
MapPut(m, k, v) == [x \in DOMAIN m \cup {k} |-> IF x = k THEN v ELSE m[x]]
\* name in list
SeqHas(list, x) == \E i \in 1..Len(list) : list[i] = x

\* ------------------------------------------------------------ formatting
RECURSIVE Pow10(_)
Pow10(e) == IF e = 0 THEN 1 ELSE 10 * Pow10(e - 1)

RECURSIVE Repeat(_, _)
\* ch * count
Repeat(ch, count) == IF count <= 0 THEN "" ELSE ch \o Repeat(ch, count - 1)

\* digits.zfill(width)
ZFill(digits, width) == Repeat("0", width - Len(digits)) \o digits

\* f"{value:.{precision}f}" of the float m/1000, m >= 0.  The conversion
\* rounds the stored binary value to the nearest multiple of 10^-precision;
\* a tie is possible only where m/1000 is stored exactly, that is where m
\* is a multiple of 125, and goes to the even neighbour.  The other
\* multiples of 5 are stored inexactly and the direction of their rounding
\* depends on the stored error: LossValues and AccValues hold none of them.
FormatFloat(m, precision) ==
  LET scaled ==
        IF precision >= 3 THEN m * Pow10(precision - 3)
        ELSE LET unit == Pow10(3 - precision)
                 q == m \div unit
                 r == m % unit
             IN  IF 2 * r > unit THEN q + 1
                 ELSE IF 2 * r < unit THEN q
                 ELSE IF q % 2 = 0 THEN q ELSE q + 1
      whole == scaled \div Pow10(precision)
      frac == scaled % Pow10(precision)
  IN  IF precision = 0 THEN ToString(whole)
      ELSE ToString(whole) \o "." \o ZFill(ToString(frac), precision)

\* TableSink._format_value
FormatValue(value) ==
  IF value.t = "none" \/ (value.t = "str" /\ value.s = "") THEN ""
  ELSE IF value.t = "float" THEN FormatFloat(value.n, float_precision)
  ELSE IF value.t = "int" THEN ToString(value.n)
  ELSE value.s

\* value.rjust(width)
RJust(text, width) == Repeat(" ", width - Len(text)) \o text

RECURSIVE Join(_, _)
\* sep.join(parts)
Join(sep, parts) ==
  IF Len(parts) = 0 THEN ""
  ELSE IF Len(parts) = 1 THEN parts[1]
  ELSE parts[1] \o sep \o Join(sep, Tail(parts))

Max(a, b) == IF a >= b THEN a ELSE b

RECURSIVE MaxOver(_, _)
\* the running max(width, value_width) over a set of value widths
MaxOver(start, set) ==
  IF set = {} THEN start
  ELSE LET x == CHOOSE y \in set : TRUE
       IN  MaxOver(Max(start, x), set \ {x})

\* ------------------------------------------------------------- rendering
\* mutant of line 75: the width does not start from the header
ColumnWidthOfValues(col, rws) ==
  MaxOver(0,
          {Len(FormatValue(rws[k][col])) :
             k \in {x \in DOMAIN rws : col \in DOMAIN rws[x]}}) + 2

\* TableSink._calculate_column_widths: the width of one column
ColumnWidth(col, rws) ==
  MaxOver(Len(col),
          {Len(FormatValue(rws[k][col])) :
             k \in {x \in DOMAIN rws : col \in DOMAIN rws[x]}}) + 2

\* TableSink._calculate_column_widths
CalculateColumnWidths(cols, rws) ==
  [col \in {cols[i] : i \in 1..Len(cols)} |-> ColumnWidth(col, rws)]

\* TableSink._build_separator
BuildSeparator(cols, widths) ==
  Join("-", [i \in 1..Len(cols) |-> Repeat("-", widths[cols[i]])])

\* TableSink._build_row; data is a mapping name -> value
BuildRow(cols, data, widths, color_code) ==
  LET parts == [i \in 1..Len(cols) |->
                  RJust(FormatValue(IF cols[i] \in DOMAIN data
                                    THEN data[cols[i]] ELSE PyStr("")),
                        widths[cols[i]] - 1) \o " "]
      row_content == " " \o Join(" ", parts) \o " "
  IN  IF color_code /= "" /\ colorize
      THEN color_code \o row_content \o RESET
      ELSE row_content

\* self.LEVEL_COLORS.get(level, "")
ColorOf(level) ==
  IF level \in DOMAIN LEVEL_COLORS THEN LEVEL_COLORS[level] ELSE ""

\* mutant of lines 131-135: the rows are written newest first
TableStrReversed(cols, rws, lvls, order, final) ==
  LET widths == CalculateColumnWidths(cols, rws)
      sep == BuildSeparator(cols, widths)
      header_data == [col \in {cols[i] : i \in 1..Len(cols)} |-> PyStr(col)]
      head == <<sep, BuildRow(cols, header_data, widths, ""), sep>>
      body == [i \in 1..Len(order) |->
                 BuildRow(cols, rws[order[Len(order) + 1 - i]], widths,
                          ColorOf(lvls[order[Len(order) + 1 - i]]))]
  IN  head \o body \o (IF final THEN <<sep>> ELSE <<>>)

\* TableSink._render_table, lines 117-141: table_str as the sequence of its
\* lines, each of them ended by a newline in the code
TableStr(cols, rws, lvls, order, final) ==
  LET widths == CalculateColumnWidths(cols, rws)
      sep == BuildSeparator(cols, widths)
      header_data == [col \in {cols[i] : i \in 1..Len(cols)} |-> PyStr(col)]
      head == <<sep, BuildRow(cols, header_data, widths, ""), sep>>
      body == [i \in 1..Len(order) |->
                 BuildRow(cols, rws[order[i]], widths,
                          ColorOf(IF order[i] \in DOMAIN lvls
                                  THEN lvls[order[i]] ELSE "INFO"))]
  IN  head \o body \o (IF final THEN <<sep>> ELSE <<>>)

\* ------------------------------------------------------------------ state
VARIABLES
  max_rows,         \* self.max_rows, fixed at construction (0 for None)
  columns,          \* self.columns: a sequence of names
  rows,             \* self.rows: key -> (name -> value)
  row_levels,       \* self.row_levels: key -> level name
  row_order,        \* self.row_order: a sequence of keys
  last_line_count,  \* self.last_line_count
  finished,         \* self.finished
  stdout,           \* sys.stdout: one entry per redraw written, oldest first
  table_str,        \* the text block written last, as its lines
  call,             \* history: the call made last and its argument
  ingested,         \* history: the keys of the records that reached a sink
                    \* not yet finished and held the key column, in order
  stdout_open,      \* sys.stdout accepts writes (a closed stream raises)
  scope,            \* where control is about the with block of lines
                    \* 224-257: "none" (no with block), "before", "inside",
                    \* "left"
  exc,              \* the exception of the with block: "none", "raised"
                    \* in the body, "propagated" or "suppressed" by __exit__
  threads           \* thread -> where it is in __call__ or finish, the
                    \* record it holds, and the exception its call raised

\* the state of the sink
sink == <<columns, rows, row_levels, row_order, last_line_count, finished>>
\* the state of the sink and of its output stream
observable == <<sink, stdout, table_str>>
\* what surrounds the sink: its stream and the code that uses it
env == <<stdout_open, scope, exc, threads>>
vars == <<max_rows, columns, rows, row_levels, row_order, last_line_count,
          finished, stdout, table_str, call, ingested, env>>

\* ----------------------------------------------------------------- inputs
Keys == {PyInt(k) : k \in 0..MaxKey}
LossValues == {PyFloat(12500)}
AccValues == {PyFloat(333)}

\* record["extra"] of the records logged at INFO: no bound field; a field
\* without the key column; the key column followed by a field, or preceded
\* by one
InfoExtras ==
  {<<>>}
  \cup {<<<<"loss", v>>>> : v \in LossValues}
  \cup {<<<<key_column, k>>, <<"loss", v>>>> : k \in Keys, v \in LossValues}
  \cup {<<<<key_column, k>>, <<"acc", v>>>> : k \in Keys, v \in AccValues}
  \cup {<<<<"acc", v>>, <<key_column, k>>>> : k \in Keys, v \in AccValues}

\* record["extra"] of the records logged at ERROR: the key column alone
ErrorExtras == {<<<<key_column, k>>>> : k \in Keys}

\* message.record: the bound fields and the level name
Messages ==
  [extra : InfoExtras, level : {"INFO"}]
  \cup [extra : ErrorExtras, level : {"ERROR"}]

\* What the history keeps of a call: the operation, whether the sink was
\* finished when the call was made, the kind of record ("empty": no bound
\* field, "nokey": fields without the key column, "keyed": fields with it),
\* the key, and, for a keyed record that reaches a sink not yet finished,
\* its fields and level.
NoCall == [op |-> "init", fin |-> FALSE, kind |-> "", key |-> PyNone,
           data |-> <<>>, level |-> ""]
Observe(message, fin) ==
  LET keyed == DictHas(message.extra, key_column)
      kept == keyed /\ ~fin
  IN  [op |-> "call", fin |-> fin,
       kind |-> IF message.extra = <<>> THEN "empty"
                ELSE IF keyed THEN "keyed" ELSE "nokey",
       key |-> IF keyed THEN DictGet(message.extra, key_column) ELSE PyNone,
       data |-> IF kept THEN DictOf(message.extra) ELSE <<>>,
       level |-> IF kept THEN message.level ELSE ""]
ObserveFinish(fin) ==
  [op |-> "finish", fin |-> fin, kind |-> "", key |-> PyNone, data |-> <<>>,
   level |-> ""]

\* ---------------------------------------------------------------- threads
Threads == {1, 2}
Idle == [pc |-> "idle", extra |-> <<>>, level |-> "", error |-> ""]

\* ------------------------------------------------------------- operations
\* TableSink.__init__
Init ==
  /\ max_rows \in 0..MaxM
  /\ columns = <<>>
  /\ rows = <<>>
  /\ row_levels = <<>>
  /\ row_order = <<>>
  /\ last_line_count = 0
  /\ finished = FALSE
  /\ stdout = <<>>
  /\ table_str = <<>>
  /\ call = NoCall
  /\ ingested = <<>>
  /\ stdout_open = TRUE
  /\ scope = "none"
  /\ exc = "none"
  /\ threads = [t \in Threads |-> Idle]

\* TableSink._clear_lines: the escape sequences written
ClearLines(n) ==
  IF n > 0 THEN <<"ESC[" \o ToString(n) \o "A", "ESC[J">> ELSE <<>>

\* what one redraw adds to sys.stdout: the count given to _clear_lines and
\* the escape sequences it writes, then the block, kept as its number of
\* lines and whether it ends with the closing border
Redraw(text, final) ==
  [up |-> last_line_count, escapes |-> ClearLines(last_line_count),
   lines |-> Len(text), closing |-> final]

\* mutant of line 151: the line count is not updated
WriteUncounted(cols, rws, lvls, order, final) ==
  LET text == TableStr(cols, rws, lvls, order, final)
  IN  /\ stdout' = Append(stdout, Redraw(text, final))
      /\ table_str' = text
      /\ last_line_count' = last_line_count

\* mutant of lines 144-148: the block is written twice
WriteTwice(cols, rws, lvls, order, final) ==
  LET text == TableStr(cols, rws, lvls, order, final)
  IN  /\ stdout' = stdout \o <<Redraw(text, final),
                               [Redraw(text, final) EXCEPT
                                  !.up = Len(text),
                                  !.escapes = ClearLines(Len(text))]>>
      /\ table_str' = text
      /\ last_line_count' = Len(text)

\* lines 144-151: clear the previous block, write the new one, count it;
\* sys.stdout.write raises on a closed stream, before anything is written
\* and before line 151 is reached
Write(cols, rws, lvls, order, final) ==
  LET text == TableStr(cols, rws, lvls, order, final)
  IN  IF stdout_open
      THEN /\ stdout' = Append(stdout, Redraw(text, final))
           /\ table_str' = text
           /\ last_line_count' = Len(text)
      ELSE UNCHANGED <<stdout, table_str, last_line_count>>

RECURSIVE AppendNew(_, _)
\* lines 65-67: append the names the list does not hold yet
AppendNew(cols, names) ==
  IF names = <<>> THEN cols
  ELSE AppendNew(IF SeqHas(cols, Head(names)) THEN cols
                 ELSE Append(cols, Head(names)),
                 Tail(names))

\* mutants of _update_columns: the key column is not moved to the front;
\* the list is rebuilt from the record
UpdateColumnsNoInsert(cols, data) == AppendNew(cols, DictKeys(data))
UpdateColumnsRebuilt(cols, data) == AppendNew(<<key_column>>, DictKeys(data))

\* TableSink._update_columns
UpdateColumns(cols, data) ==
  AppendNew(IF ~SeqHas(cols, key_column) /\ DictHas(data, key_column)
            THEN <<key_column>> \o cols ELSE cols,
            DictKeys(data))

\* mutant of line 160: the finished flag is not tested
SkipFinishedNever(fin) == FALSE

\* line 160: if self.finished
SkipFinished(fin) == fin

\* line 168: if not extra_data
SkipEmpty(extra_data) == extra_data = <<>>

\* line 172: if self.key_column not in extra_data
SkipNoKey(extra_data) == ~DictHas(extra_data, key_column)

\* mutant of the early returns: the table is redrawn before returning
ReturnAfterRedraw ==
  /\ UNCHANGED <<columns, rows, row_levels, row_order, finished>>
  /\ Write(columns, rows, row_levels, row_order, FALSE)

\* lines 161, 169, 173: return
ReturnEarly == UNCHANGED observable

\* mutant of line 182: every key is taken for a new one
IsNewKeyAlways(key_value, rws) == TRUE

\* line 182: key_value not in self.rows
IsNewKey(key_value, rws) == key_value \notin DOMAIN rws

\* mutant of line 186: the limit is enforced one row late
OverLimitLate(order, limit) == limit /= 0 /\ Len(order) > limit + 1

\* line 186: self.max_rows and len(self.row_order) > self.max_rows
OverLimit(order, limit) == limit /= 0 /\ Len(order) > limit

\* mutant of line 191: the fields are merged into the row held
StoreRowMerged(rws, key_value, extra_data) ==
  LET new == DictOf(extra_data)
      old == IF key_value \in DOMAIN rws THEN rws[key_value] ELSE <<>>
  IN  MapPut(rws, key_value,
             [name \in DOMAIN old \cup DOMAIN new |->
                IF name \in DOMAIN new THEN new[name] ELSE old[name]])

\* mutant of line 187: pop() for pop(0), the newest key is taken
PopBack(order) ==
  [key |-> order[Len(order)], rest |-> SubSeq(order, 1, Len(order) - 1)]

\* line 187: self.row_order.pop(0), the key taken and the list left
PopFront(order) == [key |-> Head(order), rest |-> Tail(order)]

\* line 191: self.rows[key_value] = extra_data
StoreRow(rws, key_value, extra_data) ==
  MapPut(rws, key_value, DictOf(extra_data))

\* TableSink.__call__, lines 175-194
Upsert(message) ==
  LET extra_data == message.extra
      key_value == DictGet(extra_data, key_column)
      level_name == message.level
      cols1 == UpdateColumns(columns, extra_data)
      is_new == IsNewKey(key_value, rows)
      appended == IF is_new THEN Append(row_order, key_value) ELSE row_order
      evict == is_new /\ OverLimit(appended, max_rows)
      popped == PopFront(appended)
      oldest_key == popped.key
      order2 == IF evict THEN popped.rest ELSE appended
      rows2 == IF evict THEN MapDel(rows, oldest_key) ELSE rows
      levels2 == IF evict THEN MapDel(row_levels, oldest_key) ELSE row_levels
      rows3 == StoreRow(rows2, key_value, extra_data)
      levels3 == MapPut(levels2, key_value, level_name)
  IN  /\ columns' = cols1
      /\ row_order' = order2
      /\ rows' = rows3
      /\ row_levels' = levels3
      /\ finished' = finished
      /\ Write(cols1, rows3, levels3, order2, FALSE)

\* TableSink.__call__
Call(message) ==
  /\ Len(stdout) < MaxWrites
  /\ call' = Observe(message, finished)
  /\ ingested' = IF call'.kind = "keyed" /\ ~finished
                 THEN Append(ingested, call'.key) ELSE ingested
  /\ max_rows' = max_rows
  /\ IF SkipFinished(finished) THEN ReturnEarly
     ELSE IF SkipEmpty(message.extra) THEN ReturnEarly
     ELSE IF SkipNoKey(message.extra) THEN ReturnEarly
     ELSE Upsert(message)

\* mutant of line 198: the rows are not tested
ShouldFinishEmpty(fin, rws) == ~fin

\* mutant of line 198: the finished flag is not tested
ShouldFinishAgain(fin, rws) == DOMAIN rws /= {}

\* line 198: not self.finished and self.rows
ShouldFinish(fin, rws) == ~fin /\ DOMAIN rws /= {}

\* TableSink.finish, lines 198-200
DoFinish ==
  IF ShouldFinish(finished, rows)
  THEN /\ finished' = TRUE
       /\ UNCHANGED <<columns, rows, row_levels, row_order>>
       /\ Write(columns, rows, row_levels, row_order, TRUE)
  ELSE UNCHANGED observable

\* TableSink.finish
Finish ==
  /\ Len(stdout) < MaxWrites
  /\ call' = ObserveFinish(finished)
  /\ UNCHANGED <<max_rows, ingested, env>>
  /\ DoFinish

Ingest == \E message \in Messages : Call(message) /\ UNCHANGED env

Next == Ingest \/ Finish

\* the sink used without a with block, on a stream that stays open
Spec == Init /\ [][Next]_vars

\* ------------------------------------------------------ the with block
\* The sink as lines 221-257 use it: constructed, entered, called from the
\* body of the with block, left.  The stream may be closed at any time, and
\* a write to a closed stream raises out of __call__ or finish.
\* The records of this specification hold the key column alone, or nothing.
SessionMessages == [extra : ErrorExtras \cup {<<>>}, level : {"ERROR"}]

\* __call__ reaches _render_table and sys.stdout.write raises
CallRaises(message) ==
  /\ ~SkipFinished(finished)
  /\ ~SkipEmpty(message.extra)
  /\ ~SkipNoKey(message.extra)
  /\ ~stdout_open

\* finish reaches _render_table and sys.stdout.write raises
FinishRaises == ShouldFinish(finished, rows) /\ ~stdout_open

ObserveExit(fin, pending) ==
  [op |-> "exit", fin |-> fin, kind |-> pending, key |-> PyNone,
   data |-> <<>>, level |-> ""]

SessionInit ==
  /\ max_rows \in 0..MaxM
  /\ columns = <<>>
  /\ rows = <<>>
  /\ row_levels = <<>>
  /\ row_order = <<>>
  /\ last_line_count = 0
  /\ finished = FALSE
  /\ stdout = <<>>
  /\ table_str = <<>>
  /\ call = NoCall
  /\ ingested = <<>>
  /\ stdout_open = TRUE
  /\ scope = "before"
  /\ exc = "none"
  /\ threads = [t \in Threads |-> Idle]

\* TableSink.__enter__
Enter ==
  /\ scope = "before"
  /\ scope' = "inside"
  /\ UNCHANGED <<max_rows, observable, call, ingested, stdout_open, exc, threads>>

\* the environment closes sys.stdout
CloseStdout ==
  /\ stdout_open
  /\ stdout_open' = FALSE
  /\ UNCHANGED <<max_rows, observable, call, ingested, scope, exc, threads>>

\* the body of the with block is running, or the block has been left
Running == (scope = "inside" /\ exc = "none") \/ scope = "left"

\* a record is logged from the body of the with block, or after it; an
\* exception raised in the body ends the body
SessionCall(message) ==
  /\ Running
  /\ Len(ingested) < MaxWrites
  /\ Call(message)
  /\ exc' = IF scope = "inside" /\ CallRaises(message) THEN "raised" ELSE exc
  /\ UNCHANGED <<stdout_open, scope, threads>>

\* finish() is called from the body of the with block, or after it
SessionFinish ==
  /\ Running
  /\ Len(stdout) < MaxWrites
  /\ call' = ObserveFinish(finished)
  /\ DoFinish
  /\ exc' = IF scope = "inside" /\ FinishRaises THEN "raised" ELSE exc
  /\ UNCHANGED <<max_rows, ingested, stdout_open, scope, threads>>

\* the body of the with block raises an exception of its own
BodyRaises ==
  /\ scope = "inside"
  /\ exc = "none"
  /\ exc' = "raised"
  /\ UNCHANGED <<max_rows, observable, call, ingested, stdout_open, scope, threads>>

\* line 209: return False
ExitSuppresses == FALSE

\* mutant of __exit__: finish() is called only when the body raised nothing
ExitOnSuccess ==
  /\ scope = "inside"
  /\ scope' = "left"
  /\ call' = ObserveExit(finished, exc)
  /\ IF exc = "none" THEN DoFinish ELSE UNCHANGED observable
  /\ exc' = IF FinishRaises /\ exc = "none" THEN "propagated"
            ELSE IF exc = "raised"
                 THEN (IF ExitSuppresses THEN "suppressed" ELSE "propagated")
                 ELSE "none"
  /\ UNCHANGED <<max_rows, ingested, stdout_open, threads>>

\* TableSink.__exit__, on the normal end of the body and on an exception:
\* an exception raised by finish() propagates, one raised by the body
\* propagates unless __exit__ returns a true value
Exit ==
  /\ scope = "inside"
  /\ scope' = "left"
  /\ call' = ObserveExit(finished, exc)
  /\ DoFinish
  /\ exc' = IF FinishRaises THEN "propagated"
            ELSE IF exc = "raised"
                 THEN (IF ExitSuppresses THEN "suppressed" ELSE "propagated")
                 ELSE "none"
  /\ UNCHANGED <<max_rows, ingested, stdout_open, threads>>

SessionIngest == \E message \in SessionMessages : SessionCall(message)

SessionNext ==
  Enter \/ CloseStdout \/ SessionIngest \/ SessionFinish \/ BodyRaises \/ Exit

\* the sink used as a context manager, on a stream that may be closed
SessionSpec == SessionInit /\ [][SessionNext]_vars

\* ------------------------------------------------------- several threads
\* __call__ and finish() called from the threads of Threads.  TableSink
\* holds no lock, so the calls interleave.  A step of this specification is
\* a group of consecutive lines; the interpreter may switch threads more
\* often than that, so every interleaving here is one the code allows.
ThreadStay == UNCHANGED <<max_rows, stdout_open, scope, exc>>

\* thread t goes on to pc, or ends its call with an exception
Goto(t, pc) == threads' = [threads EXCEPT ![t].pc = pc]
Return(t) == threads' = [threads EXCEPT ![t] = Idle]
Raise(t, error) == threads' = [threads EXCEPT ![t] = [Idle EXCEPT !.error = error]]

\* the key of the record that thread t holds
KeyOf(t) == DictGet(threads[t].extra, key_column)

\* lines 160-176 of __call__: the three tests and the reading of the record
ThreadCall(t, message) ==
  /\ threads[t].pc = "idle"
  /\ Len(stdout) < MaxWrites
  /\ Len(ingested) < MaxWrites
  /\ call' = Observe(message, finished)
  /\ ingested' = IF call'.kind = "keyed" /\ ~finished
                 THEN Append(ingested, call'.key) ELSE ingested
  /\ IF \/ SkipFinished(finished)
        \/ SkipEmpty(message.extra)
        \/ SkipNoKey(message.extra)
     THEN Return(t)
     ELSE threads' = [threads EXCEPT ![t] =
                        [pc |-> "columns", extra |-> message.extra,
                         level |-> message.level, error |-> ""]]
  /\ UNCHANGED observable
  /\ ThreadStay

\* line 179
ThreadColumns(t) ==
  /\ threads[t].pc = "columns"
  /\ columns' = UpdateColumns(columns, threads[t].extra)
  /\ Goto(t, "append")
  /\ UNCHANGED <<rows, row_levels, row_order, last_line_count, finished,
                 stdout, table_str, call, ingested>>
  /\ ThreadStay

\* lines 182-183
ThreadAppend(t) ==
  /\ threads[t].pc = "append"
  /\ IF IsNewKey(KeyOf(t), rows)
     THEN row_order' = Append(row_order, KeyOf(t)) /\ Goto(t, "evict")
     ELSE row_order' = row_order /\ Goto(t, "store")
  /\ UNCHANGED <<columns, rows, row_levels, last_line_count, finished,
                 stdout, table_str, call, ingested>>
  /\ ThreadStay

\* lines 186-189; del raises KeyError for a key that the dict does not hold
ThreadEvict(t) ==
  /\ threads[t].pc = "evict"
  /\ IF OverLimit(row_order, max_rows)
     THEN LET popped == PopFront(row_order)
              oldest_key == popped.key
          IN  /\ row_order' = popped.rest
              /\ IF oldest_key \notin DOMAIN rows
                 THEN /\ UNCHANGED <<rows, row_levels>>
                      /\ Raise(t, "KeyError")
                 ELSE /\ rows' = MapDel(rows, oldest_key)
                      /\ IF oldest_key \notin DOMAIN row_levels
                         THEN /\ UNCHANGED row_levels
                              /\ Raise(t, "KeyError")
                         ELSE /\ row_levels' = MapDel(row_levels, oldest_key)
                              /\ Goto(t, "store")
     ELSE UNCHANGED <<row_order, rows, row_levels>> /\ Goto(t, "store")
  /\ UNCHANGED <<columns, last_line_count, finished, stdout, table_str,
                 call, ingested>>
  /\ ThreadStay

\* lines 191-192
ThreadStore(t) ==
  /\ threads[t].pc = "store"
  /\ rows' = StoreRow(rows, KeyOf(t), threads[t].extra)
  /\ row_levels' = MapPut(row_levels, KeyOf(t), threads[t].level)
  /\ Goto(t, "render")
  /\ UNCHANGED <<columns, row_order, last_line_count, finished, stdout,
                 table_str, call, ingested>>
  /\ ThreadStay

\* line 132: self.rows[key] raises KeyError for a key of row_order that
\* rows does not hold
RenderRaises ==
  \E i \in 1..Len(row_order) : row_order[i] \notin DOMAIN rows

\* line 194, and line 200 with final
ThreadRender(t) ==
  /\ threads[t].pc \in {"render", "render_final"}
  /\ IF RenderRaises
     THEN /\ UNCHANGED <<stdout, table_str, last_line_count>>
          /\ Raise(t, "KeyError")
     ELSE /\ Write(columns, rows, row_levels, row_order,
                   threads[t].pc = "render_final")
          /\ Return(t)
  /\ UNCHANGED <<columns, rows, row_levels, row_order, finished, call,
                 ingested>>
  /\ ThreadStay

\* lines 198-199 of finish
ThreadFinish(t) ==
  /\ threads[t].pc = "idle"
  /\ Len(stdout) < MaxWrites
  /\ call' = ObserveFinish(finished)
  /\ IF ShouldFinish(finished, rows)
     THEN finished' = TRUE /\ Goto(t, "render_final")
     ELSE finished' = finished /\ Return(t)
  /\ UNCHANGED <<columns, rows, row_levels, row_order, last_line_count,
                 stdout, table_str, ingested>>
  /\ ThreadStay

ThreadNext ==
  \E t \in Threads :
    \/ \E message \in SessionMessages : ThreadCall(t, message)
    \/ ThreadColumns(t)
    \/ ThreadAppend(t)
    \/ ThreadEvict(t)
    \/ ThreadStore(t)
    \/ ThreadRender(t)
    \/ ThreadFinish(t)

\* the sink called from several threads
ThreadSpec == Init /\ [][ThreadNext]_vars

\* ------------------------------------------------------------ properties
\* the call made last was an ingest of a record that held the key column and
\* reached a sink not yet finished
Accepted == call.op = "call" /\ call.kind = "keyed" /\ ~call.fin

NoDuplicates(list) ==
  \A i, j \in 1..Len(list) : list[i] = list[j] => i = j

IsPrefix(a, b) == Len(a) <= Len(b) /\ SubSeq(b, 1, Len(a)) = a

\* the number of redraws written with a closing border
Closings == Cardinality({i \in 1..Len(stdout) : stdout[i].closing})

\* the two keys accepted last are the same key: the last call was an update
UpdatedLast ==
  /\ Accepted
  /\ Len(ingested) >= 2
  /\ ingested[Len(ingested)] = ingested[Len(ingested) - 1]

\* C1, first part: with max_rows = M >= 1, once M+1 records with distinct
\* keys k1..k(M+1) have been ingested into the empty table, row_order is
\* [k2..k(M+1)] and k1 is in neither rows nor row_levels.
C1_Scenario ==
  (max_rows >= 1 /\ Len(ingested) = max_rows + 1 /\ NoDuplicates(ingested))
    => /\ row_order = Tail(ingested)
       /\ ingested[1] \notin DOMAIN rows
       /\ ingested[1] \notin DOMAIN row_levels

\* C1, second part: ingesting a new key into a full table removes the front
\* key of row_order, and no other key, from row_order, rows and row_levels,
\* and appends the new key.
C1_Eviction ==
  (Accepted' /\ max_rows >= 1 /\ Len(row_order) = max_rows
     /\ call'.key \notin DOMAIN rows)
    => /\ row_order' = Append(Tail(row_order), call'.key)
       /\ DOMAIN rows' = (DOMAIN rows \ {Head(row_order)}) \cup {call'.key}
       /\ DOMAIN row_levels' =
            (DOMAIN row_levels \ {Head(row_order)}) \cup {call'.key}
       /\ \A k \in DOMAIN rows \ {Head(row_order)} :
            rows'[k] = rows[k] /\ row_levels'[k] = row_levels[k]

\* C1: a new key ingested into a full table evicts exactly the oldest key;
\* after M+1 distinct keys row_order is [k2..k(M+1)] and k1 is purged.
C1_EvictsOldest == [][C1_Eviction /\ C1_Scenario']_vars

\* C1 witness: max_rows = 2 and a third distinct key has just evicted the
\* first one.
C1_Witness ==
  /\ Accepted
  /\ max_rows = 2
  /\ Len(ingested) = 3
  /\ NoDuplicates(ingested)
  /\ row_order = Tail(ingested)

\* C2: ingesting a record whose key is already in the table leaves
\* row_order exactly as it was, also when the table is full.
C2_UpdateKeepsOrder ==
  [][(Accepted' /\ call'.key \in DOMAIN rows) => row_order' = row_order]_vars

\* C2 witness: a key has just been ingested a second time into a full
\* table.
C2_Witness ==
  /\ UpdatedLast
  /\ max_rows >= 1
  /\ Len(row_order) = max_rows

\* C3: when the columns list is not empty the key column is at its index 0,
\* and the list holds no name twice.
C3_KeyColumnFirst ==
  /\ columns /= <<>> => columns[1] = key_column
  /\ NoDuplicates(columns)

\* C3 witness: three columns are registered, "acc" before "loss"; the
\* record that registered "acc" may have named it before the key column.
C3_Witness == columns = <<key_column, "acc", "loss">>

\* C4: over every call the columns list before the call is a prefix of the
\* columns list after it.
C4_ColumnsOnlyGrow == [][IsPrefix(columns, columns')]_vars

\* C4 witness: a registered column is held by no row any more, its rows
\* having been evicted or replaced.
C4_Witness ==
  /\ Accepted
  /\ DOMAIN rows /= {}
  /\ \E i \in 1..Len(columns) :
       \A k \in DOMAIN rows : columns[i] \notin DOMAIN rows[k]

\* C5: after a record is ingested, the row of its key holds exactly the
\* fields of that record, whatever the row held before.
C5_RowReplaced ==
  Accepted => /\ call.key \in DOMAIN rows
              /\ rows[call.key] = call.data

\* C5 witness: the only key ingested so far was ingested with "acc" and
\* then with "loss" and no "acc"; "acc" is still a column.
C5_Witness ==
  /\ UpdatedLast
  /\ Len(ingested) = 2
  /\ DOMAIN call.data = {key_column, "loss"}
  /\ SeqHas(columns, "acc")
  /\ DOMAIN rows[call.key] = {key_column, "loss"}

\* C6: when max_rows is a positive integer M, row_order and rows hold at
\* most M keys in every state.
C6_AtMostMaxRows ==
  max_rows >= 1 => /\ Len(row_order) <= max_rows
                   /\ Cardinality(DOMAIN rows) <= max_rows

\* C6 witness: max_rows = 1, three distinct keys have been ingested and
\* one row is left.
C6_Witness ==
  /\ max_rows = 1
  /\ Len(ingested) = 3
  /\ NoDuplicates(ingested)
  /\ Len(row_order) = 1
  /\ Cardinality(DOMAIN rows) = 1

\* C7: ingesting a record whose fields do not include the key column
\* changes nothing of the sink (columns, rows, row_order, row_levels,
\* last_line_count) and writes nothing.
C7_NoKeyDropped ==
  [][(call'.op = "call" /\ call'.kind = "nokey") => UNCHANGED observable]_vars

\* C7 witness: a record that names "loss" without the key column has just
\* reached a sink that is not finished and holds rows, and "loss" is no
\* column.
C7_Witness ==
  /\ call.op = "call"
  /\ call.kind = "nokey"
  /\ ~call.fin
  /\ DOMAIN rows /= {}
  /\ ~SeqHas(columns, "loss")

\* C8: ingesting a record with no field at all changes nothing of the sink
\* and writes nothing.
C8_EmptyDropped ==
  [][(call'.op = "call" /\ call'.kind = "empty") => UNCHANGED observable]_vars

\* C8 witness: a record without fields has just reached a sink that is not
\* finished and has drawn its table before.
C8_Witness ==
  /\ call.op = "call"
  /\ call.kind = "empty"
  /\ ~call.fin
  /\ stdout /= <<>>

\* C9: the closing border is written at most once, and finish() on a sink
\* that is finished already changes nothing and writes nothing.
C9_FinishOnce ==
  [][/\ (call'.op = "finish" /\ finished) => UNCHANGED observable
     /\ Closings' <= 1]_vars

\* C9 witness: finish() has just been called on a finished sink.
C9_Witness ==
  /\ call.op = "finish"
  /\ call.fin
  /\ Closings = 1

\* C10: once the sink is finished it stays finished, every ingest leaves
\* the sink as it is and writes nothing, and the redraw written last is the
\* one with the closing border.
C10_FrozenAfterFinish ==
  [][finished =>
       /\ finished'
       /\ call'.op = "call" => UNCHANGED observable
       /\ stdout' /= <<>> /\ stdout'[Len(stdout')].closing]_vars

\* C10 witness: a record with a key that the table does not hold has just
\* reached a finished sink.
C10_Witness ==
  /\ finished
  /\ call.op = "call"
  /\ call.fin
  /\ call.kind = "keyed"
  /\ call.key \notin DOMAIN rows

\* the redraw written last
LastRedraw == stdout[Len(stdout)]

\* C11: the first redraw writes no escape sequence; every later redraw
\* moves the cursor up by the number of lines of the block written just
\* before it and clears; last_line_count is the number of lines of the
\* block written last.
C11_ErasesPreviousBlock ==
  /\ \A i \in 1..Len(stdout) :
       /\ stdout[i].up = (IF i = 1 THEN 0 ELSE stdout[i - 1].lines)
       /\ stdout[i].escapes =
            (IF i = 1 THEN <<>>
             ELSE <<"ESC[" \o ToString(stdout[i - 1].lines) \o "A", "ESC[J">>)
  /\ last_line_count = (IF stdout = <<>> THEN 0 ELSE LastRedraw.lines)
  /\ stdout /= <<>> => Len(table_str) = last_line_count

\* C11 witness: three redraws have been written, the last two blocks of
\* different heights.
C11_Witness ==
  /\ Len(stdout) = 3
  /\ stdout[3].up /= stdout[3].lines
  /\ stdout[3].up > 0

\* the formatted lengths of the values that the rows hold in a column
ValueLengths(col) ==
  {Len(FormatValue(rows[k][col])) :
     k \in {x \in DOMAIN rows : col \in DOMAIN rows[x]}}

\* max(H, L) + 2: the greatest of the length of the name and the lengths
\* of the values, plus the padding
ExpectedWidth(col) ==
  LET lengths == ValueLengths(col) \cup {Len(col)}
  IN  (CHOOSE x \in lengths : \A y \in lengths : y <= x) + 2

RECURSIVE SumWidths(_)
SumWidths(cols) ==
  IF cols = <<>> THEN 0 ELSE ExpectedWidth(Head(cols)) + SumWidths(Tail(cols))

\* C14: the width computed for every column is max(H, L) + 2 over the rows
\* held now, and the border of the block written last is as long as the
\* widths of the rows held now make it.
C14_WidthIsMaxPlusTwo ==
  /\ \A i \in 1..Len(columns) :
       CalculateColumnWidths(columns, rows)[columns[i]]
         = ExpectedWidth(columns[i])
  /\ stdout /= <<>>
       => Len(table_str[1]) = SumWidths(columns) + Len(columns) - 1

\* C14 witness: "loss" is a column, its five-character value was drawn and
\* the row that held it has been evicted or replaced, so that the column is
\* as wide as its name again.
C14_Witness ==
  /\ Accepted
  /\ Len(stdout) >= 2
  /\ SeqHas(columns, "loss")
  /\ ValueLengths("loss") = {}
  /\ ExpectedWidth("loss") = 6
  /\ Len(table_str[1]) = SumWidths(columns) + Len(columns) - 1

\* C15: an ingest of a keyed record into a sink not finished stores the
\* record and then writes exactly one redraw, not a final one, of the
\* table as updated; any other ingest writes none.
C15_OneRedrawPerIngest ==
  [][call'.op = "call" =>
       IF call'.kind = "keyed" /\ ~finished
       THEN /\ stdout' = Append(stdout, LastRedraw')
            /\ ~LastRedraw'.closing
            /\ call'.key \in DOMAIN rows'
            /\ rows'[call'.key] = call'.data
            /\ row_levels'[call'.key] = call'.level
            /\ table_str' = TableStr(columns', rows', row_levels',
                                     row_order', FALSE)
       ELSE stdout' = stdout /\ table_str' = table_str]_vars

\* C15 witness: a second record has just been ingested and drawn.
C15_Witness ==
  /\ Accepted
  /\ Len(stdout) = 2
  /\ Len(ingested) = 2
  /\ ~LastRedraw.closing

\* C17: the block written last is made of the top border, the header row,
\* the header separator, one line per key of row_order in that order, and
\* the closing border exactly when the redraw was the final one.
C17_BlockLayout ==
  stdout /= <<>> =>
    LET widths == [c \in {columns[i] : i \in 1..Len(columns)} |->
                     ExpectedWidth(c)]
        border == Repeat("-", SumWidths(columns) + Len(columns) - 1)
        names == [c \in {columns[i] : i \in 1..Len(columns)} |-> PyStr(c)]
        n == Len(row_order)
    IN  /\ Len(table_str) = (IF LastRedraw.closing THEN 4 ELSE 3) + n
        /\ LastRedraw.lines = Len(table_str)
        /\ table_str[1] = border
        /\ table_str[2] = BuildRow(columns, names, widths, "")
        /\ table_str[3] = border
        /\ \A i \in 1..n :
             table_str[3 + i] =
               BuildRow(columns, rows[row_order[i]], widths,
                        LEVEL_COLORS[row_levels[row_order[i]]])
        /\ LastRedraw.closing => table_str[4 + n] = border
        /\ LastRedraw.closing <=> finished

\* C17 witness: a final block over two rows that differ.
C17_Witness ==
  /\ finished
  /\ Len(row_order) = 2
  /\ Len(table_str) = 6
  /\ table_str[4] /= table_str[5]

\* C18: ingesting the record ingested just before (same key, fields and
\* level) leaves columns, rows, row_order and row_levels as they are and
\* writes the block written before.
C18_SameRecordSameBlock ==
  [][(Accepted /\ Accepted' /\ call' = call)
       => /\ UNCHANGED <<columns, rows, row_order, row_levels>>
          /\ table_str' = table_str]_vars

\* C18 witness: a record has just been ingested for the second time in a
\* row into a table of two rows, and two equal redraws were written.
C18_Witness ==
  /\ UpdatedLast
  /\ Len(row_order) = 2
  /\ Len(stdout) = 3
  /\ stdout[3].lines = stdout[2].lines
  /\ rows[call.key] = call.data

\* C19: row_order holds no key twice, and its keys are the keys of rows
\* and the keys of row_levels.
C19_RowStructuresAgree ==
  /\ NoDuplicates(row_order)
  /\ {row_order[i] : i \in 1..Len(row_order)} = DOMAIN rows
  /\ DOMAIN row_levels = DOMAIN rows

\* C19 witness: a key was evicted and ingested again.
C19_Witness ==
  /\ Accepted
  /\ max_rows = 1
  /\ Len(ingested) = 3
  /\ ingested[1] = ingested[3]
  /\ ingested[1] /= ingested[2]
  /\ row_order = <<ingested[3]>>

\* C20: finish() on a table without rows writes nothing and leaves the sink
\* as it is, not finished; a sink without rows is never finished, and
\* finish() on a sink that has rows and is not finished writes the closing
\* border.
C20_FinishWithoutRows ==
  [][/\ (call'.op = "finish" /\ DOMAIN rows = {})
          => UNCHANGED observable /\ ~finished'
     /\ (call'.op = "finish" /\ DOMAIN rows /= {} /\ ~finished)
          => /\ finished'
             /\ stdout' = Append(stdout, LastRedraw')
             /\ LastRedraw'.closing]_vars

\* C20 witness: finish() has just been called on a table without rows.
C20_Witness ==
  /\ call.op = "finish"
  /\ ~call.fin
  /\ DOMAIN rows = {}
  /\ stdout = <<>>
  /\ ~finished

\* C12: when the with block is left, normally or by an exception, finish()
\* has run: a table with rows is finished, its closing border written if
\* the sink was not finished before and the stream is open; and an
\* exception raised in the block propagates.
C12_ExitFinishes ==
  call.op = "exit" =>
    /\ scope = "left"
    /\ DOMAIN rows /= {} => finished
    /\ (DOMAIN rows /= {} /\ ~call.fin /\ stdout_open)
         => stdout /= <<>> /\ LastRedraw.closing
    /\ call.kind = "raised" => exc = "propagated"
    /\ exc /= "suppressed"

\* C12 witness: the body raised with rows in the table and the block has
\* just been left: the table is finished and the exception propagates.
C12_Witness ==
  /\ call.op = "exit"
  /\ call.kind = "raised"
  /\ ~call.fin
  /\ stdout_open
  /\ DOMAIN rows /= {}
  /\ finished
  /\ exc = "propagated"

\* C16: in every state where finished is true the closing border has been
\* written, also when the final write fails.
C16_FinishedAfterBorder == finished => Closings >= 1

\* C13: at most one thread is inside __call__ or finish at a time, no
\* redraw without the closing border is written after the final one, and no
\* redraw finds a key of row_order missing from rows.
C13_Serialized ==
  /\ Cardinality({t \in Threads : threads[t].pc /= "idle"}) <= 1
  /\ Closings >= 1 => LastRedraw.closing
  /\ \A t \in Threads : threads[t].error = ""

====
